---- MODULE Spec2Model ----
(***************************************************************************)
(* A model of ptyprocess.PtyProcess (src/ptyprocess/ptyprocess.py): one    *)
(* handle, the child process it owns and the operating system's view of    *)
(* that child (running, zombie, reaped).                                   *)
(*                                                                         *)
(* The parent is a single thread.  Handlers that sleep or block            *)
(* (terminate, wait) are cut at their sleeps and blocking calls, and spawn *)
(* between the fork and the parent's ioctl, so that the child may exit or  *)
(* be killed between any two of their steps; every other handler is one    *)
(* action.                                                                 *)
(*                                                                         *)
(* The specifications share the state: Spec (the handle's life cycle),     *)
(* ForkSpec (spawn on both sides of the fork), TermSpec (the terminal      *)
(* handlers: window size, echo, control characters, reads), StopSpec (the  *)
(* reaping handlers with a child that may be stopped), AliveSpec           *)
(* (isalive() before and after the end of file), GlobalsSpec (the module   *)
(* globals _EOF and _INTR), TtySpec (pty_make_controlling_tty of           *)
(* src/ptyprocess/_fork_pty.py), SetuidSpec (terminate() on a child that   *)
(* may change its user id), FdSpec (the descriptor from spawn to the       *)
(* collection of the handle) and ForkPtySpec (fork_pty in the parent and   *)
(* in the forked process).                                                 *)
(*                                                                         *)
(* Python values: None is modelled as -1 (exit codes and signal numbers    *)
(* are >= 0), True/False returned by a handler as 1/0.  An exception is    *)
(* the name of its class.  Reading an instance attribute that was never    *)
(* assigned raises AttributeError; raising a class whose name is not bound *)
(* in the module raises NameError.                                         *)
(***************************************************************************)
EXTENDS Integers, Sequences, FiniteSets, TLC

\* ------------------------------------------------------------- bounds
\* Children exit with a code in 0..MaxExitCode.
MaxExitCode == 2
\* close() calls counted per handle (the count saturates here).
MaxCloseCalls == 2

\* ------------------------------------------------- python / os constants
None == -1
SIGHUP == 1
SIGINT == 2
SIGKILL == 9
SIGCONT == 18
\* a signal that dumps core, sent by somebody else
SIGSEGV == 11
True == 1
False == 0

\* Names bound in the module ptyprocess.ptyprocess: its imports (lines 1-18),
\* the builtins, and what the module defines itself.  ExceptionPexpect, EOF,
\* TIMEOUT and select are used by the methods but bound nowhere.
ModuleNames ==
    {"errno", "fcntl", "io", "os", "pty", "re", "resource", "signal", "struct",
     "sys", "termios", "time", "tty", "which",
     "FileNotFoundError", "OSError", "IOError", "ValueError", "AttributeError"}

\* raise X(...): evaluating the name X comes first.
Raise(name) == IF name \in ModuleNames THEN name ELSE "NameError"

\* Instance attributes assigned by PtyProcess.__init__ (lines 113-134).
InitAttrs ==
    {"pid", "fd", "fileobj", "fileobj_bytes", "terminated", "closed",
     "exitstatus", "signalstatus", "status", "flag_eof", "delaybeforesend",
     "delayafterclose", "delayafterterminate", "__irix_hack"}

\* Attributes and methods the class itself provides (lines 82-109, and the
\* methods defined at lines 111-926).
ClassAttrs ==
    {"string_type", "allowed_string_types", "linesep", "crlf", "encoding",
     "argv", "env", "launch_dir", "__select", "isalive", "flush", "terminate",
     "kill", "read_nonblocking"}

\* self.<name>: "" when the lookup succeeds, else the exception raised.
GetAttr(i, name) ==
    IF name \in i.attrs \cup ClassAttrs THEN "" ELSE "AttributeError"

\* ------------------------------------------------------ wait statuses
\* The integer os.waitpid returns, as the kernel encodes it.
ExitedStatus(n) == n * 256
SignaledStatus(sig, core) == sig + (IF core THEN 128 ELSE 0)

WEXITSTATUS(s) == (s \div 256) % 256
WTERMSIG(s) == s % 128
WIFEXITED(s) == WTERMSIG(s) = 0
WIFSTOPPED(s) == s % 256 = 127
WIFSIGNALED(s) == WTERMSIG(s) # 0 /\ WTERMSIG(s) # 127


\* --------------------------------------------------------------- state
VARIABLES
    inst,        \* the PtyProcess instance: its attributes (exists = FALSE before spawn returns one)
    child,       \* the operating system's record of the child process
    fdOpen,      \* the descriptor spawn got from pty.fork() is open in the parent
    pc,          \* where the parent thread is: "idle" between calls, else inside wait or terminate
    call,        \* the handler called last: its name, arguments, and how it ended
    tcall,       \* the terminate() call made last: signals delivered, liveness checks made
    nforks,      \* forks made by spawn
    nptys,       \* pty pairs allocated by spawn
    closeCalls,  \* close() calls finished on the handle
    winsize,     \* the terminal's window size, as TIOCSWINSZ last set it
    eofintr,     \* the module globals _EOF and _INTR
    tty,         \* the parent's own terminal (sys.__stdin__), if it has one
    cb,          \* the forked process: where it is in spawn's child branch
    est,         \* a process inside pty_make_controlling_tty (_fork_pty.py)
    desc,        \* the descriptor's number: the close calls issued on it, uses after its release
    fp           \* a call of fork_pty (_fork_pty.py): the descriptors of its two processes

vars == <<inst, child, fdOpen, pc, call, tcall, nforks, nptys, closeCalls,
          winsize, eofintr, tty, cb, est, desc, fp>>

\* The pid pty.fork() returns to the parent (any number other than CHILD = 0).
Pid == 4242

NoInst ==
    [exists |-> FALSE, attrs |-> {}, terminated |-> FALSE, closed |-> FALSE,
     exitstatus |-> None, signalstatus |-> None, status |-> None,
     flag_eof |-> FALSE]

\* NewInst with terminated set from the start.
NewInst_BornTerminated ==
    [exists |-> TRUE, attrs |-> InitAttrs, terminated |-> TRUE,
     closed |-> FALSE, exitstatus |-> None, signalstatus |-> None,
     status |-> None, flag_eof |-> FALSE]

\* PtyProcess.__init__(pid, fd)
NewInst ==
    [exists |-> TRUE, attrs |-> InitAttrs, terminated |-> FALSE,
     closed |-> FALSE, exitstatus |-> None, signalstatus |-> None,
     status |-> None, flag_eof |-> FALSE]

NoChild == [state |-> "none", status |-> 0, ignores |-> {}, eperm |-> FALSE]

\* No pair of numbers (an argument pair, or a returned pair).
NoPair == <<None, None>>

\* No handler call made before (see Before).
NoBefore == [op |-> "", arg |-> "", pair |-> NoPair, exc |-> ""]

\* exitstatus, signalstatus and status of an instance, as a reaping handler
\* found them when it was called.
Outcome(i) == <<i.exitstatus, i.signalstatus, i.status>>

NoOutcome == <<None, None, None>>

NoCall == [op |-> "", done |-> TRUE, ret |-> None, exc |-> "", arg |-> "",
           preTerminated |-> FALSE, pair |-> NoPair, wrote |-> <<>>, kw |-> {},
           before |-> NoBefore, pre |-> NoOutcome, pids |-> <<>>]

\* What a getter keeps of the handler call made just before it, when that was
\* a call of its setter `op`: the name, the arguments and the exception.
Before(c, op) ==
    IF c.op = op
    THEN [op |-> c.op, arg |-> c.arg, pair |-> c.pair, exc |-> c.exc]
    ELSE NoBefore

\* The forked process before any fork.
NoBranch == [pc |-> "none", echo |-> TRUE, exc |-> ""]

\* No process inside pty_make_controlling_tty.  ctty is the controlling
\* terminal of the process ("none", "old": the one it was started with,
\* "target": the pty given); leader: it leads a session of its own; pgleader:
\* it leads its process group; acquires: on this platform a session leader
\* without a controlling terminal gets the terminal it opens (System V), or
\* not (BSD, where TIOCSCTTY is needed); opened, closed: the os.open calls
\* that gave a descriptor, and the os.close calls; log: the steps done.
NoEst == [pc |-> "none", ctty |-> "none", leader |-> FALSE, pgleader |-> FALSE,
          acquires |-> FALSE, detaches |-> TRUE, subclass |-> FALSE,
          reprobe |-> "-", opened |-> 0, closed |-> 0, log |-> <<>>,
          exc |-> ""]

NoTCall == [force |-> FALSE, stage |-> 0, sent |-> <<>>, sentAt |-> <<>>,
            checks |-> <<>>, done |-> TRUE, ret |-> None, exc |-> "",
            killFailed |-> FALSE, failedAt |-> 0, selfExit |-> FALSE]

Returned(op, arg, pre, ret) ==
    [op |-> op, done |-> TRUE, ret |-> ret, exc |-> "", arg |-> arg,
     preTerminated |-> pre, pair |-> NoPair, wrote |-> <<>>, kw |-> {},
     before |-> NoBefore, pre |-> NoOutcome, pids |-> <<>>]

Raised(op, arg, pre, exc) ==
    [op |-> op, done |-> TRUE, ret |-> None, exc |-> exc, arg |-> arg,
     preTerminated |-> pre, pair |-> NoPair, wrote |-> <<>>, kw |-> {},
     before |-> NoBefore, pre |-> NoOutcome, pids |-> <<>>]

Pending(op, arg, pre) ==
    [op |-> op, done |-> FALSE, ret |-> None, exc |-> "", arg |-> arg,
     preTerminated |-> pre, pair |-> NoPair, wrote |-> <<>>, kw |-> {},
     before |-> NoBefore, pre |-> NoOutcome, pids |-> <<>>]

\* termios.CEOF and termios.CINTR, the fallback of lines 66-71.
CEOF == 4
CINTR == 3

\* The terminal the parent runs on: none (cron), or one with its VEOF and
\* VINTR characters.
Ttys ==
    {[isatty |-> FALSE, veof |-> 0, vintr |-> 0],
     [isatty |-> TRUE, veof |-> 4, vintr |-> 3],
     [isatty |-> TRUE, veof |-> 26, vintr |-> 7]}

\* _make_eof_intr(), lines 43-74.  The test of line 49 guards a `pass`, so
\* the two globals are computed on every call.
make_eof_intr(g, t) ==
    IF t.isatty
    THEN [EOF |-> t.veof, INTR |-> t.vintr]
    ELSE [EOF |-> CEOF, INTR |-> CINTR]

\* setwinsize with rows and cols packed in the wrong order.
setwinsize_Swapped(rows, cols) == <<cols % 65536, rows % 65536, 0, 0>>

\* setwinsize(rows, cols), lines 784-798: struct.pack('HHHH', rows, cols, 0, 0).
setwinsize(rows, cols) == <<rows % 65536, cols % 65536, 0, 0>>

\* The descriptor's number before anything was done with it.  closes: the
\* close calls the operating system got for the number (0, 1, 2 = more than
\* one); stale: an ioctl was issued on the number after it was released.
NoDesc == [closes |-> 0, stale |-> FALSE]

\* The descriptor numbers of a process in fork_pty: 0, 1, 2 and the two
\* lowest free numbers, which os.openpty() takes.
ParentFd == 3
SubFd == 4
Fds == 0 .. SubFd

\* The descriptors of a process that has its standard three open: each
\* number with the open file behind it ("std": what the process was started
\* with, "ptm": the pty's controlling side, "pts": its subordinate side,
\* "closed").
StdTable == [n \in Fds |-> IF n < ParentFd THEN "std" ELSE "closed"]

\* No call of fork_pty.  ppc, cpc: where the parent and the forked process
\* are; ptab, ctab: their descriptors; pret, cret: the descriptor fork_pty
\* returned to each; exc: the exception that left spawn in the forked
\* process.
NoForkPty == [ppc |-> "none", cpc |-> "none", ptab |-> StdTable,
              ctab |-> StdTable, pret |-> None, cret |-> None, exc |-> ""]

\* The parent before spawn.
InitHandle ==
    /\ inst = NoInst
    /\ child = NoChild
    /\ fdOpen = FALSE
    /\ pc = "idle"
    /\ call = NoCall
    /\ tcall = NoTCall
    /\ nforks = 0
    /\ nptys = 0
    /\ closeCalls = 0
    /\ winsize = <<0, 0, 0, 0>>
    /\ eofintr = [EOF |-> None, INTR |-> None]
    /\ tty \in Ttys
    /\ cb = NoBranch
    /\ desc = NoDesc

Init == InitHandle /\ est = NoEst /\ fp = NoForkPty

\* ------------------------------------------------ the operating system
\* close(fd) issued on the descriptor's number.
OsClose(d) == [d EXCEPT !.closes = IF @ < 2 THEN @ + 1 ELSE @]

\* fcntl.ioctl(self.fd, ...) issued on the number, the descriptor being open
\* or not.
OsIoctl(d, open) == [d EXCEPT !.stale = @ \/ ~open]

\* os.waitpid(self.pid, options) for this parent's only child.
\*   zombie: the status is returned and the child is reaped;
\*   stopped (a traced child, whose stops are reported without WUNTRACED):
\*     the stop is reported once, and the child stays, held;
\*   running or held: WNOHANG returns (0, 0), options = 0 blocks;
\*   no such child: OSError(ECHILD).
Waitpid(c, nohang) ==
    CASE c.state = "zombie" ->
           [pid |-> Pid, status |-> c.status, exc |-> "", blocks |-> FALSE,
            child |-> [c EXCEPT !.state = "reaped"]]
      [] c.state = "stopped" ->
           [pid |-> Pid, status |-> c.status, exc |-> "", blocks |-> FALSE,
            child |-> [c EXCEPT !.state = "held"]]
      [] c.state \in {"running", "held"} /\ nohang ->
           [pid |-> 0, status |-> 0, exc |-> "", blocks |-> FALSE, child |-> c]
      [] c.state \in {"running", "held"} /\ ~nohang ->
           [pid |-> 0, status |-> 0, exc |-> "", blocks |-> TRUE, child |-> c]
      [] OTHER ->
           [pid |-> 0, status |-> 0, exc |-> "ECHILD", blocks |-> FALSE, child |-> c]

\* A signal that reached the child: CONT never ends it, KILL always does, any
\* other signal ends it unless the child ignores it.  A stopped child takes
\* KILL, goes on after CONT, and leaves every other signal pending.
Deliver(c, sig) ==
    IF c.state = "running" /\ sig # SIGCONT /\ sig \notin c.ignores
    THEN [c EXCEPT !.state = "zombie", !.status = SignaledStatus(sig, FALSE)]
    ELSE IF c.state \in {"stopped", "held"} /\ sig = SIGKILL
    THEN [c EXCEPT !.state = "zombie", !.status = SignaledStatus(sig, FALSE)]
    ELSE IF c.state \in {"stopped", "held"} /\ sig = SIGCONT
    THEN [c EXCEPT !.state = "running", !.status = 0]
    ELSE c

\* os.kill(self.pid, sig): EPERM for a child that runs under another user id.
OsKill(c, sig) ==
    IF c.eperm /\ c.state \in {"running", "stopped", "held"}
    THEN [exc |-> "OSError", child |-> c]
    ELSE [exc |-> "", child |-> Deliver(c, sig)]


\* ----------------------------------------------------- liveness and reap
\* ClassifyIsalive with the raw status stored where WTERMSIG(status) belongs.
ClassifyIsalive_RawStatus(i, status) ==
    IF WIFEXITED(status)
    THEN [inst |-> [i EXCEPT !.status = status,
                             !.exitstatus = WEXITSTATUS(status),
                             !.signalstatus = None,
                             !.terminated = TRUE],
          exc |-> ""]
    ELSE IF WIFSIGNALED(status)
    THEN [inst |-> [i EXCEPT !.status = status,
                             !.exitstatus = None,
                             !.signalstatus = status,
                             !.terminated = TRUE],
          exc |-> ""]
    ELSE IF WIFSTOPPED(status)
    THEN [inst |-> i, exc |-> Raise("ExceptionPexpect")]
    ELSE [inst |-> i, exc |-> ""]

\* isalive(), lines 749-764: what a definitive status does to the instance.
\* exc is the exception raised for a stopped child.
ClassifyIsalive(i, status) ==
    IF WIFEXITED(status)
    THEN [inst |-> [i EXCEPT !.status = status,
                             !.exitstatus = WEXITSTATUS(status),
                             !.signalstatus = None,
                             !.terminated = TRUE],
          exc |-> ""]
    ELSE IF WIFSIGNALED(status)
    THEN [inst |-> [i EXCEPT !.status = status,
                             !.exitstatus = None,
                             !.signalstatus = WTERMSIG(status),
                             !.terminated = TRUE],
          exc |-> ""]
    ELSE IF WIFSTOPPED(status)
    THEN [inst |-> i, exc |-> Raise("ExceptionPexpect")]
    ELSE [inst |-> i, exc |-> ""]

\* isalive(), lines 705-736: the status checks made on a child in state c
\* at the first and c2 at the second: one, and a second one after a first
\* that returned pid 0.  w is what the last check returned, calls their
\* number, first the pids returned before the last.
StatusChecks(c, c2, nohang) ==
    LET w1 == Waitpid(c, nohang)
    IN  IF w1.exc = "" /\ ~w1.blocks /\ w1.pid = 0
        THEN [w |-> Waitpid(c2, nohang), calls |-> 2, first |-> <<0>>]
        ELSE [w |-> w1, calls |-> 1, first |-> <<>>]

\* isalive(), lines 749-764: the result for the status of the checks k,
\* classified as r.
Classified(k, r) ==
    [ret |-> IF r.exc = "" THEN False ELSE None, exc |-> r.exc,
     blocks |-> FALSE, inst |-> r.inst, child |-> k.w.child,
     calls |-> k.calls, pids |-> Append(k.first, k.w.pid),
     seen |-> k.w.status]

\* isalive(), lines 709-764, after the status checks k: stuck in a blocking
\* check; ECHILD (lines 712-716); pid 0 (lines 743-747); or a status.
AfterChecks(i, c, k) ==
    IF k.w.blocks
    THEN [ret |-> None, exc |-> "", blocks |-> TRUE, inst |-> i, child |-> c,
          calls |-> k.calls, pids |-> <<>>, seen |-> None]
    ELSE IF k.w.exc # ""
    THEN [ret |-> None, exc |-> Raise("ExceptionPexpect"), blocks |-> FALSE,
          inst |-> i, child |-> k.w.child, calls |-> k.calls,
          pids |-> Append(k.first, None), seen |-> None]
    ELSE IF k.w.pid = 0
    THEN [ret |-> True, exc |-> "", blocks |-> FALSE, inst |-> i,
          child |-> k.w.child, calls |-> k.calls,
          pids |-> Append(k.first, 0), seen |-> None]
    ELSE Classified(k, ClassifyIsalive(i, k.w.status))

\* isalive(), lines 695-696: the answer for a handle that is terminated.
Terminated(i, c) ==
    [ret |-> False, exc |-> "", blocks |-> FALSE, inst |-> i, child |-> c,
     calls |-> 0, pids |-> <<>>, seen |-> None]

\* isalive2 that takes one zero pid for "alive".
isalive2_SingleCheck(i, c, c2) ==
    IF i.terminated
    THEN Terminated(i, c)
    ELSE AfterChecks(i, c, [w |-> Waitpid(c, ~i.flag_eof), calls |-> 1,
                            first |-> <<>>])

\* isalive2 that checks with WNOHANG whatever flag_eof is.
isalive2_AlwaysNohang(i, c, c2) ==
    IF i.terminated
    THEN Terminated(i, c)
    ELSE AfterChecks(i, c, StatusChecks(c, c2, TRUE))

\* isalive2 without the test of line 695.
isalive2_NoShortcut(i, c, c2) ==
    AfterChecks(i, c, StatusChecks(c, c2, ~i.flag_eof))

\* isalive(), lines 688-764, for a child in state c at the first status check
\* and in state c2 at the second (the child may exit in between).  ret is
\* True/False; exc the exception raised; blocks: the call is stuck in a
\* blocking waitpid on a running child; calls: the waitpid calls made; pids:
\* the pid each of them returned (None for an error); seen: the status
\* classified, if one was.
isalive2(i, c, c2) ==
    IF i.terminated
    THEN Terminated(i, c)
    ELSE AfterChecks(i, c, StatusChecks(c, c2, ~i.flag_eof))

\* isalive() with nothing happening to the child during the call.
isalive(i, c) == isalive2(i, c, c)

\* ClassifyWait without line 678 (self.exitstatus = None) in the signaled branch.
ClassifyWait_KeepsExitstatus(i, status) ==
    LET i0 == [i EXCEPT !.exitstatus = WEXITSTATUS(status)]
    IN  IF WIFEXITED(status)
        THEN [inst |-> [i0 EXCEPT !.status = status,
                                  !.exitstatus = WEXITSTATUS(status),
                                  !.signalstatus = None,
                                  !.terminated = TRUE],
              exc |-> ""]
        ELSE IF WIFSIGNALED(status)
        THEN [inst |-> [i0 EXCEPT !.status = status,
                                  !.signalstatus = WTERMSIG(status),
                                  !.terminated = TRUE],
              exc |-> ""]
        ELSE IF WIFSTOPPED(status)
        THEN [inst |-> i0, exc |-> Raise("ExceptionPexpect")]
        ELSE [inst |-> i0, exc |-> ""]

\* wait(), lines 670-686, after the blocking waitpid returned `status`.
ClassifyWait(i, status) ==
    LET i0 == [i EXCEPT !.exitstatus = WEXITSTATUS(status)]
    IN  IF WIFEXITED(status)
        THEN [inst |-> [i0 EXCEPT !.status = status,
                                  !.exitstatus = WEXITSTATUS(status),
                                  !.signalstatus = None,
                                  !.terminated = TRUE],
              exc |-> ""]
        ELSE IF WIFSIGNALED(status)
        THEN [inst |-> [i0 EXCEPT !.status = status,
                                  !.exitstatus = None,
                                  !.signalstatus = WTERMSIG(status),
                                  !.terminated = TRUE],
              exc |-> ""]
        ELSE IF WIFSTOPPED(status)
        THEN [inst |-> i0, exc |-> Raise("ExceptionPexpect")]
        ELSE [inst |-> i0, exc |-> ""]

\* kill(sig), lines 766-773.
kill(i, c, sig) ==
    LET a == isalive(i, c)
    IN  IF a.blocks \/ a.exc # ""
        THEN [exc |-> a.exc, blocks |-> a.blocks, inst |-> a.inst,
              child |-> a.child, alive |-> FALSE, sent |-> FALSE]
        ELSE IF a.ret = True
        THEN LET k == OsKill(a.child, sig)
             IN  [exc |-> k.exc, blocks |-> FALSE, inst |-> a.inst,
                  child |-> k.child, alive |-> TRUE, sent |-> k.exc = ""]
        ELSE [exc |-> "", blocks |-> FALSE, inst |-> a.inst, child |-> a.child,
              alive |-> FALSE, sent |-> FALSE]


\* ------------------------------------------------------------- spawn
Commands == {"sh", "nosuchcmd"}
Executables == {"sh"}

\* util.which(command): the path of the executable, or None ("None").
which(command) ==
    IF command \in Executables THEN "/bin/" \o command ELSE "None"

\* What the exec'ed program does with HUP and INT is its own business.
Dispositions == SUBSET {SIGHUP, SIGINT}

\* The keyword parameters of spawn (lines 137-139).
SpawnParams ==
    {"timeout", "maxread", "searchwindowsize", "logfile", "cwd", "env",
     "ignore_sighup", "echo"}

\* The spawn calls made: the command, the echo argument, and the other
\* keywords given (pass_fds as test_spawn.py:130-133 gives it).
SpawnCalls ==
    {[command |-> "sh", echo |-> TRUE, others |-> {}],
     [command |-> "sh", echo |-> FALSE, others |-> {}],
     [command |-> "nosuchcmd", echo |-> TRUE, others |-> {}],
     [command |-> "sh", echo |-> TRUE, others |-> {"pass_fds"}]}

\* Spawn with the fork made before argv[0] is resolved.
Spawn_ForkFirst(c, ign, eperm) ==
    /\ pc = "idle"
    /\ ~inst.exists
    /\ IF c.others \ SpawnParams # {}
       THEN /\ call' = [Raised("spawn", c.command, FALSE, "TypeError")
                          EXCEPT !.kw = c.others]
            /\ UNCHANGED <<inst, child, fdOpen, pc, nforks, nptys, eofintr, cb>>
       ELSE /\ nptys' = nptys + 1
            /\ nforks' = nforks + 1
            /\ child' = [state |-> "running", status |-> 0, ignores |-> ign,
                         eperm |-> eperm]
            /\ fdOpen' = TRUE
            /\ cb' = [pc |-> "forked", echo |-> c.echo, exc |-> ""]
            /\ IF which(c.command) = "None"
               THEN /\ call' = Raised("spawn", c.command, FALSE,
                                      Raise("FileNotFoundError"))
                    /\ UNCHANGED <<inst, pc, eofintr>>
               ELSE /\ inst' = NewInst
                    /\ eofintr' = make_eof_intr(eofintr, tty)
                    /\ call' = Pending("spawn", c.command, FALSE)
                    /\ pc' = "spawn_ws"
    /\ UNCHANGED <<tcall, closeCalls, winsize, tty, est, desc, fp>>

\* spawn(argv, ...), parent side, lines 136-212.  A keyword that is not a
\* parameter fails the call before the body runs (TypeError).  Else: resolve
\* argv[0] (lines 157-160), pty.fork() (line 165), and in the parent wrap
\* (pid, fd) in an instance, which computes _EOF and _INTR (line 205).  The
\* forked process starts on the child branch (SpawnChild); the parent goes on
\* to set the window size (SpawnSetwinsize).
Spawn(c, ign, eperm) ==
    /\ pc = "idle"
    /\ ~inst.exists
    /\ IF c.others \ SpawnParams # {}
       THEN /\ call' = [Raised("spawn", c.command, FALSE, "TypeError")
                          EXCEPT !.kw = c.others]
            /\ UNCHANGED <<inst, child, fdOpen, pc, nforks, nptys, eofintr, cb>>
       ELSE IF which(c.command) = "None"
       THEN /\ call' = Raised("spawn", c.command, FALSE, Raise("FileNotFoundError"))
            /\ UNCHANGED <<inst, child, fdOpen, pc, nforks, nptys, eofintr, cb>>
       ELSE /\ nptys' = nptys + 1
            /\ nforks' = nforks + 1
            /\ child' = [state |-> "running", status |-> 0, ignores |-> ign,
                         eperm |-> eperm]
            /\ fdOpen' = TRUE
            /\ cb' = [pc |-> "forked", echo |-> c.echo, exc |-> ""]
            /\ inst' = NewInst
            /\ eofintr' = make_eof_intr(eofintr, tty)
            /\ call' = Pending("spawn", c.command, FALSE)
            /\ pc' = "spawn_ws"
    /\ UNCHANGED <<tcall, closeCalls, winsize, tty, est, desc, fp>>

\* The errno of fcntl.ioctl(self.fd, TIOCSWINSZ or TIOCGWINSZ, s) on the
\* parent's side of the pty ("" = no error).  While the child holds the
\* other side the call succeeds; once the child has gone, the platform may
\* have lost the terminal (Solaris 11: test_spawn.py:53-58) and answers with
\* one of the two errors lines 217 and 182 name.
IoctlErrnos(c) ==
    IF c.state = "running" THEN {""} ELSE {"", "EINVAL", "ENOTTY"}

\* SpawnTolerates that lets every error of the ioctl through.
SpawnTolerates_Nothing(e) == FALSE

\* spawn, lines 216-218: the errors of setwinsize(24, 80) that are swallowed.
SpawnTolerates(e) == e \in {"EINVAL", "ENOTTY"}

\* spawn, parent side, lines 214-220: inst.setwinsize(24, 80), then return
\* inst.  An error that is not tolerated leaves spawn; the instance is then
\* unreferenced and its file object closes the descriptor.
SpawnSetwinsize ==
    /\ pc = "spawn_ws"
    /\ \E e \in IoctlErrnos(child) :
          /\ winsize' = IF e = "" THEN setwinsize(24, 80) ELSE winsize
          /\ IF e = "" \/ SpawnTolerates(e)
             THEN /\ call' = Returned("spawn", call.arg, FALSE, None)
                  /\ desc' = OsIoctl(desc, fdOpen)
                  /\ UNCHANGED <<inst, fdOpen>>
             ELSE /\ call' = Raised("spawn", call.arg, FALSE, "IOError")
                  /\ inst' = NoInst
                  /\ fdOpen' = FALSE
                  /\ desc' = OsClose(OsIoctl(desc, fdOpen))
    /\ pc' = "idle"
    /\ UNCHANGED <<child, tcall, nforks, nptys, closeCalls, eofintr, tty, cb, est,
                   fp>>

\* The descriptor pty.fork() returns in the forked process (line 165): "fd
\* is invalid" there; os.forkpty() leaves it -1.
ChildFd == -1

\* io.open(fd, 'r+b', buffering=0), line 115: the exception it raises.
IoOpen(fd) == IF fd < 0 THEN Raise("ValueError") ELSE ""

\* spawn, child branch, lines 174-202, run by the forked process.  Its first
\* statement, cls(0, fd), opens the descriptor of the child's side and
\* raises; nothing in the branch catches it, so the exception leaves spawn in
\* the forked process, which goes on in the caller's code.  (The rest of the
\* branch, setwinsize to execv, is not reached.)
SpawnChild ==
    /\ cb.pc = "forked"
    /\ child.state = "running"
    /\ cb' = [cb EXCEPT !.pc = IF IoOpen(ChildFd) = "" THEN "setup" ELSE "caller",
                        !.exc = IoOpen(ChildFd)]
    /\ UNCHANGED <<inst, child, fdOpen, pc, call, tcall, nforks, nptys,
                   closeCalls, winsize, eofintr, tty, est, desc, fp>>

\* --------------------------------------------------- the child's own life
InTerminate == pc \in {"term_kill", "term_chk", "term_exc"}

ExitCodes == 0 .. MaxExitCode

\* The child calls exit(n), or returns n from main.
ChildExit(n) ==
    /\ child.state = "running"
    /\ child' = [child EXCEPT !.state = "zombie", !.status = ExitedStatus(n)]
    /\ tcall' = IF InTerminate THEN [tcall EXCEPT !.selfExit = TRUE] ELSE tcall
    /\ UNCHANGED <<inst, fdOpen, pc, call, nforks, nptys, closeCalls, winsize, eofintr, tty, cb, est,
                   desc, fp>>

\* The child changes its user id (a set-user-id program such as su): from
\* now on os.kill(pid, sig) of the parent fails with EPERM.
ChildSetuid ==
    /\ child.state = "running"
    /\ ~child.eperm
    /\ child' = [child EXCEPT !.eperm = TRUE]
    /\ UNCHANGED <<inst, fdOpen, pc, call, tcall, nforks, nptys, closeCalls,
                   winsize, eofintr, tty, cb, est, desc, fp>>

\* Somebody else kills the child (KILL), or it crashes (SEGV, core dumped).
ChildKilled(sig) ==
    /\ child.state = "running"
    /\ child' = [child EXCEPT !.state = "zombie",
                              !.status = SignaledStatus(sig, sig = SIGSEGV)]
    /\ tcall' = IF InTerminate THEN [tcall EXCEPT !.selfExit = TRUE] ELSE tcall
    /\ UNCHANGED <<inst, fdOpen, pc, call, nforks, nptys, closeCalls, winsize, eofintr, tty, cb, est,
                   desc, fp>>

\* The signal that stops the child below.
SIGSTOP == 19

\* The wait status of a child stopped by `sig`.
StoppedStatus(sig) == sig * 256 + 127

\* The child, traced by its parent (PTRACE_TRACEME), is stopped: os.waitpid
\* reports the stops of such a child whatever its options.
ChildStopped ==
    /\ child.state = "running"
    /\ child' = [child EXCEPT !.state = "stopped",
                              !.status = StoppedStatus(SIGSTOP)]
    /\ UNCHANGED <<inst, fdOpen, pc, call, tcall, nforks, nptys, closeCalls,
                   winsize, eofintr, tty, cb, est, desc, fp>>

\* The states a child found in state c at the first status check of an
\* isalive() call may be in at the second: the same, or exited in between.
Meanwhile(c) ==
    {c} \cup IF c.state = "running"
             THEN {[c EXCEPT !.state = "zombie", !.status = ExitedStatus(n)] :
                     n \in ExitCodes}
             ELSE {}

\* ------------------------------------------------ one-step handlers
Idle == pc = "idle" /\ inst.exists

\* What a reaping handler's call record says of the status it classified:
\* "stopped" for a stopped child's.
Seen(status) ==
    IF status # None /\ WIFSTOPPED(status) THEN "stopped" ELSE ""

\* How an isalive() call that got through its status checks ends.
IsAliveEnd(a, pre, was) ==
    [(IF a.exc = ""
      THEN Returned("isalive", Seen(a.seen), pre, a.ret)
      ELSE Raised("isalive", Seen(a.seen), pre, a.exc))
     EXCEPT !.pre = was, !.pids = a.pids]

\* p.isalive().  With flag_eof set and the child running, the call stays in
\* the blocking os.waitpid of line 708 (IsAliveReap ends it).
IsAlive ==
    /\ Idle
    /\ \E c2 \in Meanwhile(child) :
          LET a == isalive2(inst, child, c2)
          IN  IF a.blocks
              THEN /\ call' = [Pending("isalive", "", inst.terminated)
                               EXCEPT !.pre = Outcome(inst)]
                   /\ pc' = "alive_block"
                   /\ UNCHANGED <<inst, child>>
              ELSE /\ inst' = a.inst
                   /\ child' = a.child
                   /\ call' = IsAliveEnd(a, inst.terminated, Outcome(inst))
                   /\ pc' = pc
    /\ UNCHANGED <<fdOpen, tcall, nforks, nptys, closeCalls, winsize, eofintr, tty, cb, est,
                   desc, fp>>

\* isalive(), lines 708-764, for a call that was waiting in os.waitpid(pid, 0):
\* the call returns the status of the child that has ended or stopped.
IsAliveReap ==
    /\ pc = "alive_block"
    /\ LET a == isalive(inst, child)
       IN  /\ ~a.blocks
           /\ inst' = a.inst
           /\ child' = a.child
           /\ call' = IsAliveEnd(a, call.preTerminated, call.pre)
    /\ pc' = "idle"
    /\ UNCHANGED <<fdOpen, tcall, nforks, nptys, closeCalls, winsize, eofintr, tty, cb, est,
                   desc, fp>>

\* p.kill(sig)
Kill(sig) ==
    /\ Idle
    /\ LET k == kill(inst, child, sig)
       IN  /\ ~k.blocks
           /\ inst' = k.inst
           /\ child' = k.child
           /\ call' = IF k.exc = ""
                      THEN Returned("kill", "", inst.terminated, None)
                      ELSE Raised("kill", "", inst.terminated, k.exc)
    /\ UNCHANGED <<fdOpen, pc, tcall, nforks, nptys, closeCalls, winsize, eofintr, tty, cb, est,
                   desc, fp>>

\* close_releases with the descriptor's number read from self.fd.
close_releases_ByFd(i) == ~i.closed

\* close(), lines 276-278: the handle is not closed, and the argument of
\* os.close(self.child_fd) can be evaluated, so that the call is issued.
close_releases(i) == ~i.closed /\ GetAttr(i, "child_fd") = ""

\* p.close(force), lines 269-286.  The first statement after flush() that
\* does anything is os.close(self.child_fd), and child_fd is assigned only at
\* line 284, after it: the argument's evaluation raises AttributeError and
\* nothing of the body runs.  (The action is defined for these states only:
\* ChildFdUnassigned below states that there are no others.)
Close(force) ==
    /\ Idle
    /\ inst.closed \/ GetAttr(inst, "child_fd") # ""
    /\ call' = IF inst.closed
               THEN Returned("close", "", inst.terminated, None)
               ELSE Raised("close", "", inst.terminated, GetAttr(inst, "child_fd"))
    /\ closeCalls' = IF closeCalls < MaxCloseCalls THEN closeCalls + 1 ELSE closeCalls
    /\ desc' = IF close_releases(inst) THEN OsClose(desc) ELSE desc
    /\ fdOpen' = IF close_releases(inst) THEN FALSE ELSE fdOpen
    /\ UNCHANGED <<inst, child, pc, tcall, nforks, nptys, winsize,
                   eofintr, tty, cb, est, fp>>

\* The handle is garbage: nothing refers to it any more.  __del__, lines
\* 246-261, calls close() unless the handle is closed, and drops whatever
\* close() raises; then the instance's attributes go, and the file object of
\* line 115, which owns the descriptor (io.open(fd, ...) with closefd at its
\* default), closes the number it was given.
Drop ==
    /\ Idle
    /\ desc' = OsClose(IF close_releases(inst) THEN OsClose(desc) ELSE desc)
    /\ fdOpen' = FALSE
    /\ inst' = NoInst
    /\ call' = Returned("__del__", "", inst.terminated, None)
    /\ UNCHANGED <<child, pc, tcall, nforks, nptys, closeCalls, winsize,
                   eofintr, tty, cb, est, fp>>

\* p.read_nonblocking(size, timeout), lines 432-488, timeout one of
\* "-1" (the default), "0" (poll) and "None" (block).
ReadTimeouts == {"-1", "0", "None"}

read_nonblocking(i, c, timeout) ==
    IF i.closed
    THEN [exc |-> Raise("ValueError"), blocks |-> FALSE, inst |-> i, child |-> c]
    ELSE IF timeout = "-1" /\ GetAttr(i, "timeout") # ""
    THEN [exc |-> GetAttr(i, "timeout"), blocks |-> FALSE, inst |-> i, child |-> c]
    ELSE LET a == isalive(i, c)
         IN  IF a.blocks \/ a.exc # ""
             THEN [exc |-> a.exc, blocks |-> a.blocks, inst |-> a.inst,
                   child |-> a.child]
             ELSE IF GetAttr(i, "child_fd") # ""
             \* lines 445 and 458: [self.child_fd] is evaluated before the call
             THEN [exc |-> GetAttr(i, "child_fd"), blocks |-> FALSE,
                   inst |-> a.inst, child |-> a.child]
             \* __select, line 913: select.select
             ELSE [exc |-> Raise("select"), blocks |-> FALSE, inst |-> a.inst,
                   child |-> a.child]

ReadNonblocking(timeout) ==
    /\ Idle
    /\ LET r == read_nonblocking(inst, child, timeout)
       IN  /\ ~r.blocks
           /\ inst' = r.inst
           /\ child' = r.child
           /\ call' = Raised("read_nonblocking", timeout, inst.terminated, r.exc)
    /\ UNCHANGED <<fdOpen, pc, tcall, nforks, nptys, closeCalls, winsize, eofintr, tty, cb, est,
                   desc, fp>>


\* p.read(size), lines 490-517: size = 0 returns the empty string at once;
\* any other size goes through self.expect / self._coerce_expect_string,
\* which nothing defines.
ReadSizes == {-1, 0, 1}

read(i, size) ==
    IF size = 0 THEN ""
    ELSE IF size < 0 THEN GetAttr(i, "expect")
    ELSE GetAttr(i, "_coerce_expect_string")

Read(size) ==
    /\ Idle
    /\ call' = IF read(inst, size) = ""
               THEN Returned("read", "", inst.terminated, 0)
               ELSE Raised("read", "", inst.terminated, read(inst, size))
    /\ UNCHANGED <<inst, child, fdOpen, pc, tcall, nforks, nptys, closeCalls,
                   winsize, eofintr, tty, cb, est, desc, fp>>

\* ---------------------------------------------------------------- wait
\* wait(), lines 666-669: the liveness check; a child found alive sends the
\* parent into the blocking os.waitpid(self.pid, 0).
WaitBegin ==
    /\ Idle
    /\ LET a == isalive(inst, child)
       IN  /\ ~a.blocks
           /\ inst' = a.inst
           /\ child' = a.child
           /\ IF a.exc # ""
              THEN /\ call' = [Raised("wait", Seen(a.seen), inst.terminated, a.exc)
                               EXCEPT !.pre = Outcome(inst)]
                   /\ pc' = pc
              ELSE IF a.ret = True
              THEN /\ call' = [Pending("wait", "", inst.terminated)
                               EXCEPT !.pre = Outcome(inst)]
                   /\ pc' = "wait_block"
              ELSE /\ call' = [Raised("wait", "", inst.terminated,
                                      Raise("ExceptionPexpect"))
                               EXCEPT !.pre = Outcome(inst)]
                   /\ pc' = pc
    /\ UNCHANGED <<fdOpen, tcall, nforks, nptys, closeCalls, winsize, eofintr, tty, cb, est,
                   desc, fp>>

\* wait(), lines 667-686: the blocking waitpid returns once the child is a
\* zombie (or has stopped); the status is classified and exitstatus returned.
WaitReap ==
    /\ pc = "wait_block"
    /\ LET w == Waitpid(child, FALSE)
       IN  /\ ~w.blocks
           /\ child' = w.child
           /\ IF w.exc # ""
              THEN /\ inst' = inst
                   /\ call' = [Raised("wait", "", call.preTerminated, "OSError")
                               EXCEPT !.pre = call.pre]
              ELSE LET k == ClassifyWait(inst, w.status)
                   IN  /\ inst' = k.inst
                       /\ call' = [(IF k.exc = ""
                                    THEN Returned("wait", Seen(w.status),
                                                  call.preTerminated,
                                                  k.inst.exitstatus)
                                    ELSE Raised("wait", Seen(w.status),
                                                call.preTerminated, k.exc))
                                   EXCEPT !.pre = call.pre]
    /\ pc' = "idle"
    /\ UNCHANGED <<fdOpen, tcall, nforks, nptys, closeCalls, winsize, eofintr, tty, cb, est,
                   desc, fp>>

\* ----------------------------------------------------------- terminate
\* The signals of terminate(), in the order of lines 628, 632, 636, 641.
StageSig == <<SIGHUP, SIGCONT, SIGINT, SIGKILL>>

\* terminate() ends: returns ret, or raises exc.
TermEnd(t, ret, exc) == [t EXCEPT !.done = TRUE, !.ret = ret, !.exc = exc]

TermCall(t) ==
    IF t.exc = ""
    THEN Returned("terminate", IF t.force THEN "force" ELSE "", call.preTerminated, t.ret)
    ELSE Raised("terminate", IF t.force THEN "force" ELSE "", call.preTerminated, t.exc)

\* terminate(force), lines 625-626: not alive, nothing to do; else on to HUP.
TerminateBegin(force) ==
    /\ Idle
    /\ LET a == isalive(inst, child)
           t0 == [NoTCall EXCEPT !.force = force, !.done = FALSE,
                                 !.checks = IF a.exc = "" THEN <<a.ret = True>> ELSE <<>>]
           pre == Pending("terminate", IF force THEN "force" ELSE "", inst.terminated)
       IN  /\ ~a.blocks
           /\ inst' = a.inst
           /\ child' = a.child
           /\ IF a.exc # ""
              THEN /\ tcall' = TermEnd(t0, None, a.exc)
                   /\ call' = [pre EXCEPT !.done = TRUE, !.exc = a.exc]
                   /\ pc' = "idle"
              ELSE IF a.ret = False
              THEN /\ tcall' = TermEnd(t0, True, "")
                   /\ call' = [pre EXCEPT !.done = TRUE, !.ret = True]
                   /\ pc' = "idle"
              ELSE /\ tcall' = [t0 EXCEPT !.stage = 1]
                   /\ call' = pre
                   /\ pc' = "term_kill"
    /\ UNCHANGED <<fdOpen, nforks, nptys, closeCalls, winsize, eofintr, tty, cb, est,
                   desc, fp>>

\* self.kill(sig); time.sleep(self.delayafterterminate) for the stage's signal
\* (lines 628-629, 632-633, 636-637, 641-642).  An OSError from os.kill is
\* caught at line 648.
TerminateKill ==
    /\ pc = "term_kill"
    /\ LET sig == StageSig[tcall.stage]
           k == kill(inst, child, sig)
           checked == k.exc \in {"", "OSError"}
           t1 == [tcall EXCEPT
                    !.checks = IF checked THEN Append(@, k.alive) ELSE @,
                    !.sent = IF k.sent THEN Append(@, sig) ELSE @,
                    !.sentAt = IF k.sent THEN Append(@, Len(tcall.checks) + 1) ELSE @,
                    !.killFailed = @ \/ k.exc = "OSError",
                    !.failedAt = IF k.exc = "OSError"
                                 THEN Len(tcall.checks) + 1 ELSE @]
       IN  /\ ~k.blocks
           /\ inst' = k.inst
           /\ child' = k.child
           /\ IF k.exc = "OSError"
              THEN /\ tcall' = t1
                   /\ call' = call
                   /\ pc' = "term_exc"
              ELSE IF k.exc # ""
              THEN /\ tcall' = TermEnd(t1, None, k.exc)
                   /\ call' = TermCall(TermEnd(t1, None, k.exc))
                   /\ pc' = "idle"
              ELSE /\ tcall' = t1
                   /\ call' = call
                   /\ pc' = "term_chk"
    /\ UNCHANGED <<fdOpen, nforks, nptys, closeCalls, winsize, eofintr, tty, cb, est,
                   desc, fp>>

\* AfterCheck that stops after INT whatever force is.
AfterCheck_NeverKills(stage, force, alive) ==
    IF ~alive THEN "True"
    ELSE IF stage < 3 THEN "next"
    ELSE "False"

\* AfterCheck that goes on to KILL whatever force is.
AfterCheck_AlwaysKills(stage, force, alive) ==
    IF ~alive THEN "True"
    ELSE IF stage < 4 THEN "next"
    ELSE "False"

\* AfterCheck with line 647 returning True.
AfterCheck_TrueAfterInt(stage, force, alive) ==
    IF ~alive THEN "True"
    ELSE IF stage < 3 THEN "next"
    ELSE IF stage = 3 THEN (IF force THEN "next" ELSE "True")
    ELSE "False"

\* What terminate() does once the liveness check after a stage's sleep has
\* returned `alive` (lines 630-647): "next" (the next signal), or the value
\* it returns.
AfterCheck(stage, force, alive) ==
    IF ~alive THEN "True"
    ELSE IF stage < 3 THEN "next"
    ELSE IF stage = 3 THEN (IF force THEN "next" ELSE "False")
    ELSE "False"

\* The liveness check after a stage's sleep.
TerminateCheck ==
    /\ pc = "term_chk"
    /\ LET a == isalive(inst, child)
           t1 == [tcall EXCEPT !.checks = IF a.exc = "" THEN Append(@, a.ret = True) ELSE @]
           nxt == AfterCheck(tcall.stage, tcall.force, a.ret = True)
       IN  /\ ~a.blocks
           /\ inst' = a.inst
           /\ child' = a.child
           /\ IF a.exc # ""
              THEN /\ tcall' = TermEnd(t1, None, a.exc)
                   /\ call' = TermCall(TermEnd(t1, None, a.exc))
                   /\ pc' = "idle"
              ELSE IF nxt = "next"
              THEN /\ tcall' = [t1 EXCEPT !.stage = @ + 1]
                   /\ call' = call
                   /\ pc' = "term_kill"
              ELSE /\ tcall' = TermEnd(t1, IF nxt = "True" THEN True ELSE False, "")
                   /\ call' = TermCall(TermEnd(t1, IF nxt = "True" THEN True ELSE False, ""))
                   /\ pc' = "idle"
    /\ UNCHANGED <<fdOpen, nforks, nptys, closeCalls, winsize, eofintr, tty, cb, est,
                   desc, fp>>

\* AfterExcept that reports success whatever the last check said.
AfterExcept_AlwaysTrue(alive) == True

\* Lines 654-657: what terminate() returns after the check in its handler.
AfterExcept(alive) == IF alive THEN False ELSE True

\* except OSError, lines 648-657: sleep, one more liveness check, return.
TerminateExcept ==
    /\ pc = "term_exc"
    /\ LET a == isalive(inst, child)
           t1 == [tcall EXCEPT !.checks = IF a.exc = "" THEN Append(@, a.ret = True) ELSE @]
           ret == AfterExcept(a.ret = True)
       IN  /\ ~a.blocks
           /\ inst' = a.inst
           /\ child' = a.child
           /\ IF a.exc # ""
              THEN /\ tcall' = TermEnd(t1, None, a.exc)
                   /\ call' = TermCall(TermEnd(t1, None, a.exc))
              ELSE /\ tcall' = TermEnd(t1, ret, "")
                   /\ call' = TermCall(TermEnd(t1, ret, ""))
    /\ pc' = "idle"
    /\ UNCHANGED <<fdOpen, nforks, nptys, closeCalls, winsize, eofintr, tty, cb, est,
                   desc, fp>>

\* ---------------------------------------------------- terminal handlers
\* The largest number struct.pack's format 'H' takes (lines 780, 797).
MaxUShort == 65535

\* Rows and columns given to p.setwinsize.
Dims == {0, 30, MaxUShort, MaxUShort + 1}

\* The exception p.setwinsize(rows, cols) raises, lines 795-798:
\* struct.error for a number 'H' cannot hold, the ioctl's error `e` else.
setwinsize_exc(rows, cols, e) ==
    IF rows \notin 0 .. MaxUShort \/ cols \notin 0 .. MaxUShort
    THEN "struct.error"
    ELSE IF e # "" THEN "IOError" ELSE ""

\* p.setwinsize(rows, cols), lines 784-798.
SetWinsize(rows, cols) ==
    /\ Idle
    /\ \E e \in IoctlErrnos(child) :
          LET exc == setwinsize_exc(rows, cols, e)
          IN  /\ winsize' = IF exc = "" THEN setwinsize(rows, cols) ELSE winsize
              /\ call' = [(IF exc = ""
                           THEN Returned("setwinsize", "", inst.terminated, None)
                           ELSE Raised("setwinsize", "", inst.terminated, exc))
                          EXCEPT !.pair = <<rows, cols>>]
              /\ desc' = IF exc = "struct.error" THEN desc
                         ELSE OsIoctl(desc, fdOpen)
    /\ UNCHANGED <<inst, child, fdOpen, pc, tcall, nforks, nptys, closeCalls,
                   eofintr, tty, cb, est, fp>>

\* getwinsize(), lines 780-782: struct.unpack('HHHH', x)[0:2] of the four
\* numbers TIOCGWINSZ filled in.
getwinsize(ws) == <<ws[1], ws[2]>>

\* p.getwinsize(), lines 775-782.
GetWinsize ==
    /\ Idle
    /\ \E e \in IoctlErrnos(child) :
          call' = [(IF e = ""
                    THEN Returned("getwinsize", "", inst.terminated, None)
                    ELSE Raised("getwinsize", "", inst.terminated, "IOError"))
                   EXCEPT !.pair = IF e = "" THEN getwinsize(winsize) ELSE NoPair,
                          !.before = Before(call, "setwinsize")]
    /\ desc' = OsIoctl(desc, fdOpen)
    /\ UNCHANGED <<inst, child, fdOpen, pc, tcall, nforks, nptys, closeCalls,
                   winsize, eofintr, tty, cb, est, fp>>

\* getecho(), lines 342-343: the exception raised.  termios.tcgetattr's
\* argument self.child_fd is evaluated first, and no instance has it.
getecho(i) == GetAttr(i, "child_fd")

\* p.getecho(), lines 335-351.  (Defined, as Close is, for the instances
\* there are: those without child_fd.)
GetEcho ==
    /\ Idle
    /\ getecho(inst) # ""
    /\ call' = [Raised("getecho", "", inst.terminated, getecho(inst))
                EXCEPT !.before = Before(call, "setecho")]
    /\ UNCHANGED <<inst, child, fdOpen, pc, tcall, nforks, nptys, closeCalls,
                   winsize, eofintr, tty, cb, est, desc, fp>>

\* setecho(state), lines 386-389: the exception raised, at the same
\* termios.tcgetattr(self.child_fd).
setecho(i, state) == GetAttr(i, "child_fd")

\* p.setecho(state), lines 353-409.
SetEcho(state) ==
    /\ Idle
    /\ setecho(inst, state) # ""
    /\ call' = Raised("setecho", IF state THEN "True" ELSE "False",
                      inst.terminated, setecho(inst, state))
    /\ UNCHANGED <<inst, child, fdOpen, pc, tcall, nforks, nptys, closeCalls,
                   winsize, eofintr, tty, cb, est, desc, fp>>

\* The timeout argument of p.waitnoecho: "-1" (the default, no argument),
\* "None" (block) or a number of seconds.
EchoTimeouts == {"-1", "None", "3"}

\* waitnoecho(timeout), lines 322-327: the exception raised.  The default
\* reads self.timeout, which no instance has; any other timeout gets as far
\* as self.getecho().
waitnoecho(i, timeout) ==
    IF timeout = "-1" /\ GetAttr(i, "timeout") # ""
    THEN GetAttr(i, "timeout")
    ELSE getecho(i)

\* p.waitnoecho(timeout), lines 305-333.
WaitNoEcho(timeout) ==
    /\ Idle
    /\ waitnoecho(inst, timeout) # ""
    /\ call' = Raised("waitnoecho", timeout, inst.terminated,
                      waitnoecho(inst, timeout))
    /\ UNCHANGED <<inst, child, fdOpen, pc, tcall, nforks, nptys, closeCalls,
                   winsize, eofintr, tty, cb, est, desc, fp>>

\* Characters given to p.sendcontrol, as code points: letters of both cases,
\* the punctuation of the table and its neighbours, a digit, a blank, DEL,
\* and two letters from outside ASCII: U+0130 (capital I with dot above) and
\* U+212A (the Kelvin sign).
Chars ==
    {32, 48, 63, 64, 65, 75, 90, 91, 92, 93, 94, 95, 96, 97, 107, 122, 123,
     124, 125, 126, 127, 304, 8490}

\* str.lower() of a one-character string, line 578, as the string of code
\* points it returns: A-Z become a-z; the Kelvin sign becomes k; capital I
\* with dot above becomes i followed by the combining dot (two characters).
lower(ch) ==
    IF ch >= 65 /\ ch <= 90 THEN <<ch + 32>>
    ELSE IF ch = 8490 THEN <<107>>
    ELSE IF ch = 304 THEN <<105, 775>>
    ELSE <<ch>>

\* The dictionary d of lines 583-589, by code point.
ControlTable ==
    [c \in {64, 96, 91, 123, 92, 124, 93, 125, 94, 126, 95, 63} |->
        CASE c \in {64, 96} -> 0
          [] c \in {91, 123} -> 27
          [] c \in {92, 124} -> 28
          [] c \in {93, 125} -> 29
          [] c \in {94, 126} -> 30
          [] c = 95 -> 31
          [] c = 63 -> 127]

\* sendcontrol(char), lines 578-593: the bytes written and the value
\* returned (the count fileobj_bytes.write returns), or the exception: ord()
\* takes one character only.
sendcontrol(ch) ==
    LET l == lower(ch)
    IN  IF Len(l) # 1
        THEN [exc |-> "TypeError", wrote |-> <<>>, ret |-> None]
        ELSE IF l[1] >= 97 /\ l[1] <= 122
        THEN [exc |-> "", wrote |-> <<l[1] - 97 + 1>>, ret |-> 1]
        ELSE IF l[1] \notin DOMAIN ControlTable
        THEN [exc |-> "", wrote |-> <<>>, ret |-> 0]
        ELSE [exc |-> "", wrote |-> <<ControlTable[l[1]]>>, ret |-> 1]

\* p.sendcontrol(char)
SendControl(ch) ==
    /\ Idle
    /\ LET r == sendcontrol(ch)
       IN  call' = [(IF r.exc = ""
                     THEN Returned("sendcontrol", "", inst.terminated, r.ret)
                     ELSE Raised("sendcontrol", "", inst.terminated, r.exc))
                    EXCEPT !.pair = <<ch, None>>, !.wrote = r.wrote]
    /\ UNCHANGED <<inst, child, fdOpen, pc, tcall, nforks, nptys, closeCalls,
                   winsize, eofintr, tty, cb, est, desc, fp>>

\* sendeof(), line 605: the byte written.
sendeof(g) == <<g.EOF>>

\* p.sendeof()
SendEof ==
    /\ Idle
    /\ call' = [Returned("sendeof", "", inst.terminated, None)
                EXCEPT !.wrote = sendeof(eofintr)]
    /\ UNCHANGED <<inst, child, fdOpen, pc, tcall, nforks, nptys, closeCalls,
                   winsize, eofintr, tty, cb, est, desc, fp>>

\* sendintr(), line 611: the byte written: _EOF again, not _INTR.
sendintr(g) == <<g.EOF>>

\* p.sendintr()
SendIntr ==
    /\ Idle
    /\ call' = [Returned("sendintr", "", inst.terminated, None)
                EXCEPT !.wrote = sendintr(eofintr)]
    /\ UNCHANGED <<inst, child, fdOpen, pc, tcall, nforks, nptys, closeCalls,
                   winsize, eofintr, tty, cb, est, desc, fp>>

\* p.eof(), lines 613-617.
Eof ==
    /\ Idle
    /\ call' = Returned("eof", "", inst.terminated,
                        IF inst.flag_eof THEN True ELSE False)
    /\ UNCHANGED <<inst, child, fdOpen, pc, tcall, nforks, nptys, closeCalls,
                   winsize, eofintr, tty, cb, est, desc, fp>>

\* --------------------------------------------------- the module globals
\* Somebody sets other VEOF and VINTR characters on the parent's terminal
\* (stty eof ... intr ...).
Stty(t) ==
    /\ tty.isatty
    /\ t.isatty
    /\ t # tty
    /\ tty' = t
    /\ UNCHANGED <<inst, child, fdOpen, pc, call, tcall, nforks, nptys,
                   closeCalls, winsize, eofintr, cb, est, desc, fp>>

\* PtyProcess(pid, fd), lines 111-134, for a further child of this process:
\* another handle is constructed, which is not the handle `inst`; of the
\* state held here the construction touches the two module globals
\* (_make_eof_intr(), line 112).
Construct ==
    /\ Idle
    /\ eofintr' = make_eof_intr(eofintr, tty)
    /\ call' = Returned("PtyProcess", "", inst.terminated, None)
    /\ UNCHANGED <<inst, child, fdOpen, pc, tcall, nforks, nptys, closeCalls,
                   winsize, tty, cb, est, desc, fp>>

\* ------------------------------------------- the controlling terminal
\* The process as pty_make_controlling_tty(tty_fd) may find it (the forked
\* process of fork_pty, _fork_pty.py line 43, or any other caller).
\* detaches: os.setsid() leaves the process without a controlling terminal,
\* as POSIX has it (the second probe is there for a platform where it does
\* not).  subclass: PtyProcessError (of .util) derives from OSError.
EstStarts ==
    {[NoEst EXCEPT !.pc = "probe", !.ctty = t, !.pgleader = g, !.acquires = a,
                   !.detaches = d, !.subclass = o] :
        t \in {"none", "old"}, g \in BOOLEAN, a \in BOOLEAN, d \in BOOLEAN,
        o \in BOOLEAN}

\* The errno of os.open("/dev/tty", ...) ("" = a descriptor): ENXIO for a
\* process without a controlling terminal; EMFILE for one out of descriptors.
OpenDevTty(ctty) ==
    IF ctty = "none" THEN {"ENXIO", "EMFILE"} ELSE {"", "EMFILE"}

\* The errno of os.open(child_name, os.O_RDWR).
OpenName == {"", "EMFILE"}

\* ProbeTolerates that lets every error pass.
ProbeTolerates_Anything(e) == TRUE

\* _fork_pty.py lines 70 and 82: the error of a probe that is not raised again.
ProbeTolerates(e) == e = "ENXIO"

\* _fork_pty.py lines 83-85: `except OSError as err` around the second probe
\* meets the exception exc whose errno is e, and raises it again unless it
\* is an OSError of a tolerated errno.  TRUE: the exception leaves the
\* function.
ReprobeRaises(exc, isOSError, e) == ~(isOSError /\ ProbeTolerates(e))

\* One step of the function done.
EstDone(e, step, next) ==
    [e EXCEPT !.log = Append(@, step), !.pc = next]

\* os.open gave a descriptor and os.close closed it.
EstOpenClose(e) == [e EXCEPT !.opened = @ + 1, !.closed = @ + 1]

\* The function is left by an exception.
EstRaised(e, exc) == [e EXCEPT !.pc = "raised", !.exc = exc]

\* The other variables, which the function leaves alone.
EstFrame ==
    UNCHANGED <<inst, child, fdOpen, pc, call, tcall, nforks, nptys,
                closeCalls, winsize, eofintr, tty, cb, desc, fp>>

\* _fork_pty.py lines 62-71: the name of the pty, and the probe of /dev/tty
\* before the process leaves its session.
CttyProbe ==
    /\ est.pc = "probe"
    /\ \E e \in OpenDevTty(est.ctty) :
          est' = IF e = "" THEN EstDone(EstOpenClose(est), "probe", "setsid")
                 ELSE IF ProbeTolerates(e) THEN EstDone(est, "probe", "setsid")
                 ELSE EstRaised(est, "OSError")
    /\ EstFrame

\* _fork_pty.py line 73: os.setsid(), which a process-group leader may not
\* call (EPERM); the new session has no controlling terminal.
CttySetsid ==
    /\ est.pc = "setsid"
    /\ est' = IF est.pgleader
              THEN EstRaised(est, "OSError")
              ELSE EstDone([est EXCEPT !.leader = TRUE,
                                       !.ctty = IF est.detaches THEN "none"
                                                ELSE @,
                                       !.pgleader = TRUE],
                           "setsid", "reprobe")
    /\ EstFrame

\* The second probe ended: by the exception exc of errno e, which the
\* handler of lines 83-85 raises again or drops.
ReprobeEnd(e0, exc, isOSError, e) ==
    IF ReprobeRaises(exc, isOSError, e)
    THEN EstRaised(e0, exc)
    ELSE EstDone(e0, "reprobe", "name")

\* _fork_pty.py lines 76-85: /dev/tty must not open now.  When it does, the
\* descriptor is closed and PtyProcessError (which has no errno) is raised
\* inside the try block.
CttyReprobe ==
    /\ est.pc = "reprobe"
    /\ \E e \in OpenDevTty(est.ctty) :
          est' = IF e = ""
                 THEN ReprobeEnd([EstOpenClose(est) EXCEPT !.reprobe = "ok"],
                                 "PtyProcessError", est.subclass, "None")
                 ELSE ReprobeEnd([est EXCEPT !.reprobe = e], "OSError", TRUE, e)
    /\ EstFrame

\* _fork_pty.py lines 86-87: the pty is opened by its name, without O_NOCTTY.
CttyOpenName ==
    /\ est.pc = "name"
    /\ \E e \in OpenName :
          est' = IF e = ""
                 THEN EstDone([EstOpenClose(est) EXCEPT
                                 !.ctty = IF est.leader /\ est.ctty = "none"
                                             /\ est.acquires
                                          THEN "target" ELSE @],
                              "name", "verify")
                 ELSE EstRaised(est, "OSError")
    /\ EstFrame

\* CttyVerify that takes ENXIO as the probes do.
CttyVerify_Tolerant ==
    /\ est.pc = "verify"
    /\ \E e \in OpenDevTty(est.ctty) :
          est' = IF e = "" THEN EstDone(EstOpenClose(est), "verify", "returned")
                 ELSE IF ProbeTolerates(e) THEN EstDone(est, "verify", "returned")
                 ELSE EstRaised(est, "OSError")
    /\ EstFrame

\* _fork_pty.py lines 90-91: /dev/tty must open now; then the function returns.
CttyVerify ==
    /\ est.pc = "verify"
    /\ \E e \in OpenDevTty(est.ctty) :
          est' = IF e = "" THEN EstDone(EstOpenClose(est), "verify", "returned")
                 ELSE EstRaised(est, "OSError")
    /\ EstFrame

\* ------------------------------------------------------------ fork_pty
\* The other variables, which fork_pty leaves alone.
ForkPtyFrame ==
    UNCHANGED <<inst, child, fdOpen, pc, call, tcall, nforks, nptys,
                closeCalls, winsize, eofintr, tty, cb, desc>>

\* spawn is called on a platform without a usable pty.fork()
\* (use_native_pty_fork false, ptyprocess.py lines 23-25 and 166-168).
ForkPtyStarts == {[NoForkPty EXCEPT !.ppc = "openpty"]}

\* _fork_pty.py lines 34-36: os.openpty(), which raises OSError when the
\* process or the system is out of descriptors or of ptys.
ForkPtyOpenpty ==
    /\ fp.ppc = "openpty"
    /\ \E ok \in BOOLEAN :
          fp' = IF ok
                THEN [fp EXCEPT !.ppc = "fork",
                                !.ptab = [@ EXCEPT ![ParentFd] = "ptm",
                                                   ![SubFd] = "pts"]]
                ELSE [fp EXCEPT !.ppc = "raised"]
    /\ est' = est
    /\ ForkPtyFrame

\* _fork_pty.py line 38: os.fork().  The forked process has a copy of the
\* parent's descriptors, and the parent's session, process group and
\* controlling terminal; it does not lead its process group.
ForkPtyFork ==
    /\ fp.ppc = "fork"
    /\ fp' = [fp EXCEPT !.ppc = "close", !.cpc = "close", !.ctab = fp.ptab]
    /\ est' \in {[e EXCEPT !.pc = "none"] : e \in {d \in EstStarts : ~d.pgleader}}
    /\ ForkPtyFrame

\* _fork_pty.py lines 50-54, the parent: os.close(child_fd);
\* return pid, parent_fd.
ForkPtyParent ==
    /\ fp.ppc = "close"
    /\ fp' = [fp EXCEPT !.ptab = [@ EXCEPT ![SubFd] = "closed"],
                        !.ppc = "returned", !.pret = ParentFd]
    /\ est' = est
    /\ ForkPtyFrame

\* _fork_pty.py lines 41-42, the forked process: os.close(parent_fd), then
\* into pty_make_controlling_tty(child_fd).
ForkPtyChildClose ==
    /\ fp.cpc = "close"
    /\ fp' = [fp EXCEPT !.ctab = [@ EXCEPT ![ParentFd] = "closed"],
                        !.cpc = "ctty"]
    /\ est' = [est EXCEPT !.pc = "probe"]
    /\ ForkPtyFrame

\* _fork_pty.py lines 43-54, the forked process, once
\* pty_make_controlling_tty is over (every descriptor it opened is closed
\* again): the three os.dup2(child_fd, ...), and return pid, parent_fd.  An
\* exception of pty_make_controlling_tty leaves fork_pty.
ForkPtyChildDup ==
    /\ fp.cpc = "ctty"
    /\ est.pc \in {"returned", "raised"}
    /\ fp' = IF est.pc = "raised"
             THEN [fp EXCEPT !.cpc = "raised", !.exc = est.exc]
             ELSE [fp EXCEPT !.ctab = [n \in Fds |->
                                         IF n < ParentFd THEN fp.ctab[SubFd]
                                         ELSE fp.ctab[n]],
                             !.cpc = "returned", !.cret = ParentFd]
    /\ est' = est
    /\ ForkPtyFrame

\* io.open(fd, 'r+b', buffering=0), line 115, in a process whose descriptors
\* are tab: the exception it raises (EBADF for a number that is not open).
IoOpenIn(tab, fd) ==
    IF IoOpen(fd) # "" THEN IoOpen(fd)
    ELSE IF tab[fd] = "closed" THEN "OSError"
    ELSE ""

\* spawn, lines 204-220, in the parent: cls(pid, fd) on the descriptor
\* fork_pty returned.
SpawnParentInit ==
    /\ fp.ppc = "returned"
    /\ fp' = [fp EXCEPT !.ppc = IF IoOpenIn(fp.ptab, fp.pret) = ""
                                THEN "handle" ELSE "raised"]
    /\ est' = est
    /\ ForkPtyFrame

\* spawn, lines 174-202, in the forked process: cls(0, fd) on the descriptor
\* fork_pty returned there.  An exception of io.open leaves spawn, as in
\* SpawnChild.  (Defined up to that statement.)
SpawnChildInit ==
    /\ fp.cpc = "returned"
    /\ fp' = [fp EXCEPT !.cpc = IF IoOpenIn(fp.ctab, fp.cret) = ""
                                THEN "setup" ELSE "caller",
                        !.exc = IoOpenIn(fp.ctab, fp.cret)]
    /\ est' = est
    /\ ForkPtyFrame

\* -------------------------------------------------------- specification
\* Spec is the parent's thread with the handle's life-cycle handlers, and the
\* child as the operating system shows it.  The child branch of spawn
\* (SpawnChild) changes cb only, which no handler of the parent reads, and
\* the echo argument is read on the child branch only: both are left to
\* ForkSpec below.
Next ==
    \/ \E c \in {d \in SpawnCalls : d.echo}, ign \in Dispositions, eperm \in BOOLEAN :
          Spawn(c, ign, eperm)
    \/ SpawnSetwinsize
    \/ \E n \in ExitCodes : ChildExit(n)
    \/ \E sig \in {SIGKILL, SIGSEGV} : ChildKilled(sig)
    \/ IsAlive
    \/ \E sig \in {SIGHUP, SIGINT, SIGKILL} : Kill(sig)
    \/ \E force \in BOOLEAN : Close(force)
    \/ \E timeout \in ReadTimeouts : ReadNonblocking(timeout)
    \/ \E size \in ReadSizes : Read(size)
    \/ WaitBegin
    \/ WaitReap
    \/ \E force \in BOOLEAN : TerminateBegin(force)
    \/ TerminateKill
    \/ TerminateCheck
    \/ TerminateExcept

Spec == Init /\ [][Next]_vars

\* ForkSpec is spawn on both sides of the fork: the parent's two steps, the
\* forked process on the child branch, and the child's end.
ForkNext ==
    \/ \E c \in SpawnCalls, ign \in Dispositions, eperm \in BOOLEAN : Spawn(c, ign, eperm)
    \/ SpawnSetwinsize
    \/ SpawnChild
    \/ \E n \in ExitCodes : ChildExit(n)
    \/ \E sig \in {SIGKILL, SIGSEGV} : ChildKilled(sig)

ForkSpec == Init /\ [][ForkNext]_vars

\* TermSpec is a handle under the terminal handlers (window size, echo, the
\* control characters) and the reads, with a child that may exit meanwhile.
\* These handlers change the window size and nothing else of the handle.
TermNext ==
    \/ \E c \in SpawnCalls : Spawn(c, {}, FALSE)
    \/ SpawnSetwinsize
    \/ \E n \in ExitCodes : ChildExit(n)
    \/ \E rows \in Dims, cols \in Dims : SetWinsize(rows, cols)
    \/ GetWinsize
    \/ GetEcho
    \/ \E state \in BOOLEAN : SetEcho(state)
    \/ \E timeout \in EchoTimeouts : WaitNoEcho(timeout)
    \/ \E ch \in Chars : SendControl(ch)
    \/ SendEof
    \/ SendIntr
    \/ Eof
    \/ \E timeout \in ReadTimeouts : ReadNonblocking(timeout)
    \/ \E size \in ReadSizes : Read(size)

TermSpec == Init /\ [][TermNext]_vars

\* StopSpec is a handle whose child may be stopped, under the handlers that
\* reap.
StopNext ==
    \/ \E c \in {d \in SpawnCalls : d.echo} : Spawn(c, {}, FALSE)
    \/ SpawnSetwinsize
    \/ \E n \in ExitCodes : ChildExit(n)
    \/ \E sig \in {SIGKILL, SIGSEGV} : ChildKilled(sig)
    \/ ChildStopped
    \/ IsAlive
    \/ \E sig \in {SIGCONT, SIGKILL} : Kill(sig)
    \/ WaitBegin
    \/ WaitReap

StopSpec == Init /\ [][StopNext]_vars

\* AliveSpec is isalive() on a handle as spawn returned it, whose flag_eof is
\* as a read that met the end of the child's output left it (lines 447, 455,
\* 465, 476, 481), or as the constructor did.
AliveInit ==
    /\ \E f \in BOOLEAN : inst = [NewInst EXCEPT !.flag_eof = f]
    /\ \E ign \in Dispositions :
          child = [state |-> "running", status |-> 0, ignores |-> ign,
                   eperm |-> FALSE]
    /\ fdOpen = TRUE
    /\ pc = "idle"
    /\ call = Returned("spawn", "sh", FALSE, None)
    /\ tcall = NoTCall
    /\ nforks = 1
    /\ nptys = 1
    /\ closeCalls = 0
    /\ winsize = setwinsize(24, 80)
    /\ tty \in Ttys
    /\ eofintr = make_eof_intr([EOF |-> None, INTR |-> None], tty)
    /\ cb = [pc |-> "forked", echo |-> TRUE, exc |-> ""]
    /\ est = NoEst
    /\ desc = NoDesc
    /\ fp = NoForkPty

AliveNext ==
    \/ \E n \in ExitCodes : ChildExit(n)
    \/ \E sig \in {SIGKILL, SIGSEGV} : ChildKilled(sig)
    \/ IsAlive
    \/ IsAliveReap

AliveSpec == AliveInit /\ [][AliveNext]_vars

\* GlobalsSpec is the module globals _EOF and _INTR under the construction of
\* handles, with a parent's terminal whose characters may be set anew.
GlobalsNext ==
    \/ \E c \in SpawnCalls : Spawn(c, {}, FALSE)
    \/ SpawnSetwinsize
    \/ \E n \in ExitCodes : ChildExit(n)
    \/ \E t \in Ttys : Stty(t)
    \/ Construct
    \/ SendEof
    \/ SendIntr

GlobalsSpec == Init /\ [][GlobalsNext]_vars

\* SetuidSpec is terminate() on a child that may change its user id, and so
\* get out of the reach of the parent's signals, between any two steps.
SetuidNext ==
    \/ \E c \in {d \in SpawnCalls : d.echo}, ign \in Dispositions :
          Spawn(c, ign, FALSE)
    \/ SpawnSetwinsize
    \/ \E n \in ExitCodes : ChildExit(n)
    \/ ChildSetuid
    \/ \E force \in BOOLEAN : TerminateBegin(force)
    \/ TerminateKill
    \/ TerminateCheck
    \/ TerminateExcept

SetuidSpec == Init /\ [][SetuidNext]_vars

\* FdSpec is the life of one handle and of its descriptor, from spawn to the
\* collection of the handle.
FdNext ==
    \/ /\ nforks = 0
       /\ \E c \in {d \in SpawnCalls : d.echo} : Spawn(c, {}, FALSE)
    \/ SpawnSetwinsize
    \/ \E n \in ExitCodes : ChildExit(n)
    \/ \E force \in BOOLEAN : Close(force)
    \/ \E rows \in Dims, cols \in Dims : SetWinsize(rows, cols)
    \/ GetWinsize
    \/ Drop

FdSpec == Init /\ [][FdNext]_vars

\* ForkPtySpec is spawn's call of fork_pty, in the parent and in the forked
\* process, up to the construction of the instance on each side.
ForkPtyInit == InitHandle /\ est = NoEst /\ fp \in ForkPtyStarts

ForkPtyNext ==
    \/ ForkPtyOpenpty
    \/ ForkPtyFork
    \/ ForkPtyParent
    \/ ForkPtyChildClose
    \/ CttyProbe
    \/ CttySetsid
    \/ CttyReprobe
    \/ CttyOpenName
    \/ CttyVerify
    \/ ForkPtyChildDup
    \/ SpawnParentInit
    \/ SpawnChildInit

ForkPtySpec == ForkPtyInit /\ [][ForkPtyNext]_vars

\* TtySpec is one process going through pty_make_controlling_tty.
TtyInit == InitHandle /\ est \in EstStarts /\ fp = NoForkPty

TtyNext ==
    \/ CttyProbe
    \/ CttySetsid
    \/ CttyReprobe
    \/ CttyOpenName
    \/ CttyVerify

TtySpec == TtyInit /\ [][TtyNext]_vars


\* Every reachable instance lacks the attribute child_fd: it is assigned at
\* line 284 only, which no execution reaches.
ChildFdUnassigned == "child_fd" \notin inst.attrs

TypeOK ==
    /\ inst.exists \in BOOLEAN
    /\ inst.terminated \in BOOLEAN
    /\ child.state \in {"none", "running", "stopped", "held", "zombie", "reaped"}
    /\ pc \in {"idle", "spawn_ws", "alive_block", "wait_block", "term_kill",
               "term_chk", "term_exc"}
    /\ est.pc \in {"none", "probe", "setsid", "reprobe", "name", "verify",
                   "returned", "raised"}
    /\ est.opened \in 0 .. 3 /\ est.closed \in 0 .. 3
    /\ Len(call.pids) <= 2
    /\ cb.pc \in {"none", "forked", "caller"}
    /\ call.op = "spawn" => call.arg \in Commands
    /\ winsize[3] = 0 /\ winsize[4] = 0
    /\ fdOpen \in BOOLEAN
    /\ desc.closes \in 0 .. 2 /\ desc.stale \in BOOLEAN
    /\ fp.ppc \in {"none", "openpty", "fork", "close", "returned", "handle",
                   "raised"}
    /\ fp.cpc \in {"none", "close", "ctty", "returned", "setup", "caller",
                   "raised"}
    /\ closeCalls \in 0 .. MaxCloseCalls

\* ================================================================ claims

IsPrefix(p, q) == Len(p) <= Len(q) /\ \A k \in 1 .. Len(p) : p[k] = q[k]

ExitedWith(n) == child.state \in {"zombie", "reaped"} /\ child.status = ExitedStatus(n)
KilledBy(sig) == child.state \in {"zombie", "reaped"}
                 /\ \E core \in BOOLEAN : child.status = SignaledStatus(sig, core)

\* C1: for a child that exits normally with code N, a wait() called while
\* terminated is false returns N, and afterwards terminated = true,
\* exitstatus = N, signalstatus = None and isalive() returns False; whether
\* the child exits before or after wait() is called.
C1_WaitReturnsExitCode ==
    \A n \in ExitCodes :
        (call.op = "wait" /\ call.done /\ ~call.preTerminated /\ ExitedWith(n))
        => /\ call.exc = ""
           /\ call.ret = n
           /\ inst.terminated
           /\ inst.exitstatus = n
           /\ inst.signalstatus = None
           /\ isalive(inst, child).ret = False

\* C2: for a child killed by signal S, once a reap by isalive() or wait() has
\* observed the status, terminated = true, exitstatus = None and
\* signalstatus = S, in that state and in every later one.
Signals == {SIGHUP, SIGINT, SIGKILL, SIGSEGV}

C2_SignalDeathReported ==
    \A sig \in Signals :
        (inst.exists /\ child.state = "reaped" /\ KilledBy(sig))
        => /\ inst.terminated
           /\ inst.exitstatus = None
           /\ inst.signalstatus = sig

\* a crash with a core dump was reaped, and a later handler has run on the
\* terminated handle
C2_Witness ==
    /\ child.state = "reaped"
    /\ child.status = SignaledStatus(SIGSEGV, TRUE)
    /\ inst.signalstatus = SIGSEGV
    /\ call.done /\ call.preTerminated

\* C3: in every state, terminated = true implies that exactly one of
\* exitstatus and signalstatus is set.
C3_ExitXorSignal ==
    inst.terminated => ((inst.exitstatus # None) # (inst.signalstatus # None))

\* wait() reaped a signal death: line 670 had stored an exit status first
C3_Witness ==
    /\ inst.terminated
    /\ call.op = "wait" /\ call.done /\ call.exc = ""
    /\ inst.signalstatus = SIGKILL
    /\ inst.exitstatus = None

\* C5: close() is idempotent: a close() call that follows an earlier close()
\* call on the handle raises no error (and changes nothing).
C5_SecondCloseRaisesNothing ==
    (call.op = "close" /\ call.done /\ closeCalls >= 2) => call.exc = ""

\* C6: between operations the terminal descriptor is open iff closed is
\* false, on every exit path of close(): close() either fails because the
\* child could not be terminated, or it completes, and then closed is true,
\* the descriptor is released and the stored descriptor is the sentinel -1
\* (child_fd is assigned at line 284 only, and -1 there).
CouldNotTerminate == Raise("ExceptionPexpect")

C7_Case ==
    /\ tcall.done /\ tcall.force
    /\ tcall.checks # <<>> /\ tcall.checks[1]
    /\ child.ignores = {SIGHUP, SIGINT}
    /\ ~child.eperm
    /\ ~tcall.selfExit

C8_SignalsEscalate ==
    /\ IsPrefix(tcall.sent, <<SIGHUP, SIGCONT, SIGINT, SIGKILL>>)
    /\ \A k \in 1 .. Len(tcall.sent) :
          /\ tcall.sentAt[k] >= 1
          /\ \A j \in 1 .. tcall.sentAt[k] : tcall.checks[j]
    /\ (\E k \in 1 .. Len(tcall.sent) : tcall.sent[k] = SIGKILL) => tcall.force

\* the child died of HUP: one signal, and the escalation stopped there
C8_Witness ==
    /\ tcall.done /\ tcall.sent = <<SIGHUP>> /\ tcall.ret = True
    /\ ~tcall.selfExit /\ inst.signalstatus = SIGHUP

\* C9: terminate(force) returns True only with terminated true at return,
\* returns False only when the last liveness check of the call reported the
\* child alive, and with force = false it returns False after the INT stage
\* if the child is still alive then.
LastCheck == tcall.checks[Len(tcall.checks)]

C9_TerminateVerdict ==
    (tcall.done /\ tcall.checks # <<>> /\ tcall.exc = "")
    => /\ tcall.ret \in {True, False}
       /\ tcall.ret = True => (inst.terminated /\ ~LastCheck)
       /\ tcall.ret = False => LastCheck
       /\ (~tcall.force /\ tcall.stage = 3 /\ ~tcall.killFailed /\ LastCheck)
          => (tcall.ret = False /\ tcall.sent = <<SIGHUP, SIGCONT, SIGINT>>)

\* force = false, the child survived HUP, CONT and INT
C9_Witness ==
    /\ tcall.done /\ ~tcall.force /\ tcall.stage = 3 /\ LastCheck
    /\ tcall.ret = False /\ child.state = "running"

\* C10: when argv[0] does not resolve to an executable, spawn fails with the
\* command-not-found error before any fork: no pty pair allocated, no child
\* created, no handle returned.
C10_NotFoundBeforeFork ==
    (call.op = "spawn" /\ which(call.arg) = "None")
    => /\ call.exc = "FileNotFoundError"
       /\ ~inst.exists
       /\ nforks = 0 /\ nptys = 0
       /\ child.state = "none"
       /\ ~fdOpen

C10_Witness ==
    call.op = "spawn" /\ call.arg = "nosuchcmd" /\ call.exc = "FileNotFoundError"

\* C11: the child branch of spawn never returns to the caller: the forked
\* process never goes on in the caller's code after spawn.
C11_ChildNeverReturns == cb.pc # "caller"

C13_PassFdsPreserved ==
    (call.op = "spawn" /\ call.done /\ "pass_fds" \in call.kw)
    => /\ call.exc = ""
       /\ nforks > 0
       /\ child.state # "none"

\* C14: wait() raises only if terminated was already true when it was
\* called; it never fails merely because the child exited before the call.
C14_WaitFailsOnlyIfTerminated ==
    (call.op = "wait" /\ call.done /\ call.exc # "") => call.preTerminated

\* C15: echo round trip: for each boolean s, a getecho() that follows
\* setecho(s) on an open handle (the child changing nothing in between)
\* returns s, and the handle's cached echo attribute equals s.
C15_EchoRoundTrip ==
    \A s \in BOOLEAN :
        (/\ call.op = "getecho" /\ call.done
         /\ call.before.op = "setecho"
         /\ call.before.arg = (IF s THEN "True" ELSE "False"))
        => /\ call.exc = ""
           /\ call.ret = (IF s THEN True ELSE False)
           /\ "echo" \in inst.attrs

\* C16: window-size round trip: for rows and cols in 0..65535, a getwinsize()
\* that follows setwinsize(rows, cols) on the same open handle (both calls
\* reaching the terminal) returns (rows, cols); and the two pixel fields of
\* the terminal's window size are always zero.
C16_WinsizeRoundTrip ==
    /\ winsize[3] = 0 /\ winsize[4] = 0
    /\ (/\ call.op = "getwinsize" /\ call.done /\ call.exc = ""
        /\ call.before.op = "setwinsize" /\ call.before.exc = "")
       => /\ call.before.pair[1] \in 0 .. MaxUShort
          /\ call.before.pair[2] \in 0 .. MaxUShort
          /\ call.pair = call.before.pair

\* the largest rows with the smallest cols came back
C16_Witness ==
    /\ call.op = "getwinsize" /\ call.done /\ call.exc = ""
    /\ call.before.op = "setwinsize" /\ call.before.exc = ""
    /\ call.before.pair = <<MaxUShort, 0>>
    /\ call.pair = <<MaxUShort, 0>>

\* C17: on a handle that spawn returned for echo = false, waitnoecho() with
\* no timeout argument returns True, and getecho() returns False with the
\* cached echo attribute False.
C17_NoEchoAfterSpawn ==
    (inst.exists /\ call.done /\ ~cb.echo)
    => /\ (call.op = "waitnoecho" /\ call.arg = "-1")
          => (call.exc = "" /\ call.ret = True)
       /\ call.op = "getecho"
          => (call.exc = "" /\ call.ret = False /\ "echo" \in inst.attrs)

\* The reference mapping of sendcontrol: the byte written for a character, as
\* a string of at most one byte.
C18_Reference(ch) ==
    IF ch >= 97 /\ ch <= 122 THEN <<ch - 96>>
    ELSE IF ch >= 65 /\ ch <= 90 THEN <<ch - 64>>
    ELSE IF ch \in {64, 96} THEN <<0>>
    ELSE IF ch \in {91, 123} THEN <<27>>
    ELSE IF ch \in {92, 124} THEN <<28>>
    ELSE IF ch \in {93, 125} THEN <<29>>
    ELSE IF ch \in {94, 126} THEN <<30>>
    ELSE IF ch = 95 THEN <<31>>
    ELSE IF ch = 63 THEN <<127>>
    ELSE <<>>

\* C18: sendcontrol(c) agrees with the reference mapping for every single
\* character c: it writes the one byte of the mapping, and for every
\* character outside the mapping it writes nothing and returns 0.
C18_SendcontrolMapping ==
    \A ch \in Chars :
        (call.op = "sendcontrol" /\ call.done /\ call.pair[1] = ch)
        => /\ call.exc = ""
           /\ call.wrote = C18_Reference(ch)
           /\ C18_Reference(ch) = <<>> => call.ret = 0

\* The EOF and INTR characters configured: those of the parent's terminal,
\* ASCII 4 and 3 without one.
C19_Configured ==
    IF tty.isatty THEN [EOF |-> tty.veof, INTR |-> tty.vintr]
    ELSE [EOF |-> 4, INTR |-> 3]

\* C19: sendeof() writes exactly the one byte of the configured EOF
\* character and sendintr() exactly the one byte of the configured INTR
\* character.
C19_EofIntrBytes ==
    /\ (call.op = "sendeof" /\ call.done)
       => (call.exc = "" /\ call.wrote = <<C19_Configured.EOF>>)
    /\ (call.op = "sendintr" /\ call.done)
       => (call.exc = "" /\ call.wrote = <<C19_Configured.INTR>>)

C22_WaitNoEchoBlocks ==
    (call.op = "waitnoecho" /\ call.arg = "None" /\ call.done)
    => (call.exc = "" /\ call.ret = True)

\* C23: terminated is false in a handle just constructed; it becomes true
\* only in a step that reaps the child (the zombie is gone afterwards) with
\* a status of normal exit or of death by signal, which the handle then
\* holds; and no step sets it back to false.
C23_TerminatedLatched ==
    [][/\ (~inst.exists /\ inst'.exists) => ~inst'.terminated
       /\ inst.terminated => inst'.terminated
       /\ (~inst.terminated /\ inst'.terminated)
          => /\ child.state \in {"running", "zombie"}
             /\ child'.state = "reaped"
             /\ WIFEXITED(child'.status) \/ WIFSIGNALED(child'.status)
             /\ inst'.status = child'.status
             /\ pc # "spawn_ws"]_vars

\* a handler called after the reap found terminated still set
C23_Witness ==
    /\ inst.terminated
    /\ call.done /\ call.preTerminated
    /\ call.op \in {"kill", "terminate", "close", "read_nonblocking"}

\* C24: while terminated is false, exitstatus and signalstatus are both
\* None; and a reaping handler called with terminated true leaves both (and
\* status) as it found them.
C24_OutcomeSetOnce ==
    /\ (inst.exists /\ ~inst.terminated)
       => (inst.exitstatus = None /\ inst.signalstatus = None)
    /\ (call.op \in {"isalive", "wait"} /\ call.done /\ call.preTerminated)
       => Outcome(inst) = call.pre

\* The fatal error for a child in a state the handle does not support.
UnsupportedState == Raise("ExceptionPexpect")

\* C25: an isalive() or wait() whose status check reported a stopped child
\* fails with the fatal error and leaves terminated, exitstatus,
\* signalstatus and status as they were before the call.
C25_StoppedLeavesOutcome ==
    (call.op \in {"isalive", "wait"} /\ call.done /\ call.arg = "stopped")
    => /\ call.exc = UnsupportedState
       /\ inst.terminated = call.preTerminated
       /\ Outcome(inst) = call.pre

\* C26: isalive() makes at most two status checks; it returns True only
\* when both reported pid 0; and a status that the second check reports is
\* classified as one of the first check is: the handle holds it, with the
\* exit code or the signal number it carries, and the call returns False.
C26_TwoZeroChecks ==
    (call.op = "isalive" /\ call.done)
    => /\ Len(call.pids) <= 2
       /\ call.ret = True => call.pids = <<0, 0>>
       /\ (Len(call.pids) = 2 /\ call.pids[2] = Pid)
          => /\ call.exc = "" /\ call.ret = False
             /\ inst.terminated
             /\ inst.status = child.status
             /\ WIFEXITED(child.status)
                => /\ inst.exitstatus = WEXITSTATUS(child.status)
                   /\ inst.signalstatus = None
             /\ WIFSIGNALED(child.status)
                => /\ inst.exitstatus = None
                   /\ inst.signalstatus = WTERMSIG(child.status)

\* the child exited with code 1 between the two checks of one call
C26_Witness ==
    /\ call.op = "isalive" /\ call.done
    /\ call.pids = <<0, Pid>>
    /\ inst.terminated /\ inst.exitstatus = 1

\* C28: once terminated is true, isalive() returns False without a status
\* check, kill() sends nothing, terminate() sends nothing and wait() fails
\* without waiting; the handle being the only one that reaps, no status
\* check meets a child that is gone (ECHILD).
C28_NothingAfterReap ==
    /\ (inst.exists /\ child.state = "reaped") => inst.terminated
    /\ call.op = "isalive" => \A k \in 1 .. Len(call.pids) : call.pids[k] # None
    /\ inst.terminated
       => /\ isalive(inst, child) =
                [ret |-> False, exc |-> "", blocks |-> FALSE, inst |-> inst,
                 child |-> child, calls |-> 0, pids |-> <<>>, seen |-> None]
          /\ \A sig \in {SIGHUP, SIGCONT, SIGINT, SIGKILL} :
                /\ ~kill(inst, child, sig).sent
                /\ kill(inst, child, sig).exc = ""
                /\ kill(inst, child, sig).child = child
    /\ (call.op = "isalive" /\ call.preTerminated)
       => (call.done /\ call.ret = False /\ call.pids = <<>>)
    /\ (call.op = "terminate" /\ call.preTerminated)
       => (call.done /\ call.ret = True /\ tcall.sent = <<>>)
    /\ (call.op = "wait" /\ call.preTerminated)
       => (call.done /\ call.exc # "" /\ call.exc # "OSError")

\* terminate() on a handle whose child was reaped before
C28_Witness ==
    /\ inst.terminated /\ child.state = "reaped"
    /\ call.op = "terminate" /\ call.done /\ call.preTerminated

\* C29: once a construction has determined _EOF and _INTR, no step changes
\* them, whatever has become of the parent's terminal.
C29_EofIntrOnce ==
    [][eofintr.EOF # None => eofintr' = eofintr]_vars

\* The steps of pty_make_controlling_tty, in order.
C30_Steps == <<"probe", "setsid", "reprobe", "name", "verify">>

\* C30: pty_make_controlling_tty does its steps in order (the probe of
\* /dev/tty, the new session, the second probe, the open of the pty by name,
\* the final open of /dev/tty), and returns only after all of them; on
\* return the process leads a session whose controlling terminal is the pty,
\* and every descriptor the function opened is closed.
C30_ControllingTty ==
    /\ IsPrefix(est.log, C30_Steps)
    /\ est.pc = "returned"
       => /\ est.log = C30_Steps
          /\ est.leader
          /\ est.ctty = "target"
          /\ est.opened = est.closed
    /\ est.pc = "raised" => est.opened = est.closed

\* a process that had a controlling terminal got the pty instead
C30_Witness ==
    /\ est.pc = "returned"
    /\ est.opened = 3
    /\ est.ctty = "target"

\* C31: when /dev/tty opens after the new session was started, the function
\* is left by PtyProcessError and the pty is never opened by name; a second
\* probe that fails with an error other than ENXIO is left by that error;
\* only a second probe that failed with ENXIO is followed by the open of
\* the pty.
C31_ReprobePropagates ==
    /\ est.reprobe = "ok"
       => /\ est.pc = "raised" /\ est.exc = "PtyProcessError"
          /\ est.log = <<"probe", "setsid">>
    /\ est.reprobe \notin {"-", "ok", "ENXIO"}
       => /\ est.pc = "raised" /\ est.exc = "OSError"
          /\ est.log = <<"probe", "setsid">>
    /\ (Len(est.log) >= 3 /\ est.log[3] = "reprobe") => est.reprobe = "ENXIO"

\* after os.setsid() the process still had its terminal, and /dev/tty opened
C31_Witness ==
    /\ est.reprobe = "ok"
    /\ est.pc = "raised"
    /\ est.leader
    /\ est.closed = 2

\* C35: the handler of terminate() runs only after a signal could not be
\* delivered; a terminate() that ended after such a failure made exactly one
\* liveness check after the failed kill(), returned True when that check
\* found the child not alive and False when it found it alive, and sent no
\* signal after the failure; and no terminate() sends a signal twice.
C35_OneLastCheck ==
    /\ pc = "term_exc" => (tcall.killFailed /\ ~tcall.done)
    /\ (tcall.killFailed /\ tcall.done /\ tcall.exc = "")
       => /\ tcall.failedAt >= 2
          /\ Len(tcall.checks) = tcall.failedAt + 1
          /\ tcall.ret = IF tcall.checks[Len(tcall.checks)] THEN False ELSE True
          /\ \A k \in 1 .. Len(tcall.sentAt) : tcall.sentAt[k] < tcall.failedAt
    /\ IsPrefix(tcall.sent, StageSig)

\* SIGHUP went through, SIGCONT could not be delivered, and the child was
\* still alive at the last check
C35_Witness ==
    /\ tcall.killFailed /\ tcall.done
    /\ tcall.sent = <<SIGHUP>>
    /\ tcall.stage = 2
    /\ tcall.ret = False

\* C33: over the life of a handle the operating system gets at most one
\* close for the descriptor's number, and none while the handle lives; no
\* handler issues an ioctl on the number after its release; and once the
\* handle is gone the number has been closed, once.
C33_ReleasedOnce ==
    /\ desc.closes <= 1
    /\ ~desc.stale
    /\ inst.exists => (fdOpen /\ desc.closes = 0)
    /\ (nforks > 0 /\ ~inst.exists) => (~fdOpen /\ desc.closes = 1)

\* close() failed, was tried again and failed again; then the handle was
\* collected
C33_Witness ==
    /\ closeCalls = 2
    /\ call.op = "__del__"
    /\ ~inst.exists
    /\ desc.closes = 1

\* The parent's half of C34, and the three standard descriptors of the
\* forked process.
C34_ParentAndStd ==
    /\ fp.ppc \in {"returned", "handle"}
       => /\ fp.ptab[fp.pret] = "ptm"
          /\ \A n \in Fds : fp.ptab[n] # "pts"
    /\ fp.cpc = "returned" => \A n \in 0 .. 2 : fp.ctab[n] = "pts"

\* C34: after fork_pty the descriptor returned to the parent is open there,
\* on the pty's controlling side, and the parent holds no descriptor of the
\* subordinate side; the descriptors 0, 1 and 2 of the forked process are
\* the subordinate side; the descriptor returned to the forked process is
\* open there; and the forked process does not fail on a descriptor that is
\* not open before it execs.
C34_ReturnedOpen ==
    /\ C34_ParentAndStd
    /\ fp.cpc = "returned" => fp.ctab[fp.cret] # "closed"
    /\ fp.cpc # "caller"

====
